---- MODULE Spec2Model ----
(***************************************************************************)
(* Model of the tenant-cleanup decision core: the Tracker template methods *)
(* (tracking.py) and the prevent-delete detectors (detectors.py).          *)
(***************************************************************************)
EXTENDS Integers, Sequences, FiniteSets, TLC

VARIABLES
    rows,          \* tracker backend: key -> sequence of stored created timestamps
    now,           \* wall clock (datetime.now())
    firstCreated,  \* per key: created of the first _register since the last _unregister
    last,          \* the last operation: its arguments, what it called and what it returned
    cloud,         \* OpenstackInstanceManager.get_all(): whether it raises, else the instances in order
    marked,        \* already_marked_for_deletion
    config,        \* the configured detector list of the cleanup pass
    pass,          \* items of the cleanup pass in evaluation order
    idx,           \* number of pass items already evaluated
    decisions,     \* the decision of each evaluated pass item
    threads,       \* per thread inside Tracker.register: its position and what it read
    excludes,      \* the Iterable captured by the detector of create_exclude_detector
    previous       \* per key: created of the record the last _unregister deleted

vars == <<rows, now, firstCreated, last, cloud, marked, config, pass, idx, decisions,
          threads, excludes, previous>>

----------------------------------------------------------------------------
(* Bounds *)

MaxTime == 2
MaxThreshold == 1
MaxBatch == 2
MaxCloud == 2
MaxPass == 2
MaxDetectors == 2
MaxName == 3
MaxPatterns == 2

----------------------------------------------------------------------------
(* Items (models.OpenstackItem and its variants, as used by the two files) *)

None == <<>>
Some(x) == <<x>>

MkItem(t, id, nm, ts, cr, pr, im, kn) ==
    [type |-> t, identifier |-> id, name |-> nm, timestamped |-> ts, created_at |-> cr,
     protected |-> pr, image |-> im, key_name |-> kn]

Image1 == MkItem("OpenstackImage", 1, "img-a", FALSE, 0, FALSE, 0, "")
Image2 == MkItem("OpenstackImage", 2, "img-b", FALSE, 0, TRUE, 0, "")
Keypair1 == MkItem("OpenstackKeypair", 1, "key-a", FALSE, 0, FALSE, 0, "")
Keypair2 == MkItem("OpenstackKeypair", 2, "key-b", FALSE, 0, FALSE, 0, "")
Instance1 == MkItem("OpenstackInstance", 1, "vm-a", TRUE, 1, FALSE, 1, "key-a")
Instance2 == MkItem("OpenstackInstance", 2, "vm-b", TRUE, 0, FALSE, 1, "key-b")
Instance3 == MkItem("OpenstackInstance", 3, "vm-c", TRUE, 0, FALSE, 2, "key-a")

Images == {Image1, Image2}
Keypairs == {Keypair1, Keypair2}
Instances == {Instance1, Instance2, Instance3}
Items == Images \cup Keypairs \cup Instances

\* Equality contract of the items: same concrete type and same identifier.
ItemEq(a, b) == a.type = b.type /\ a.identifier = b.identifier

\* item in collection, by the items' equality.
In(item, collection) == \E m \in collection : ItemEq(m, item)

Key(item) == <<item.type, item.identifier>>
Keys == {Key(i) : i \in Items}

\* Items the tracker operations are exercised on.
TrackedItems == {Image1, Instance1}

----------------------------------------------------------------------------
(* Tracker backend primitives *)

\* get_age: absent when the item has no record, otherwise now - created.
get_age(self, item, t) ==
    IF self[Key(item)] = <<>> THEN None
    ELSE Some(t - self[Key(item)][Len(self[Key(item)])])

\* _register: create a record (identifier, item_type, created).
_register(self, item, created) ==
    [self EXCEPT ![Key(item)] = Append(@, created)]

\* _unregister: delete the record(s) of the item; nothing to delete when absent.
_unregister(self, item) ==
    [self EXCEPT ![Key(item)] = <<>>]

\* get_registered_identifiers(item_type): None as item_type means every type.
get_registered_identifiers(self, item_type) ==
    {k[2] : k \in {q \in Keys : self[q] # <<>> /\ (item_type = None \/ Some(q[1]) = item_type)}}

----------------------------------------------------------------------------
(* Tracker.register / Tracker.unregister *)

\* An argument is a single item or a collection of items.
Single(item) == [isItem |-> TRUE, item |-> item, coll |-> <<>>]
Coll(seq) == [isItem |-> FALSE, item |-> Image1, coll |-> seq]

\* items = [item] if isinstance(item, OpenstackItem) else item
AsItems(arg) == IF arg.isItem THEN <<arg.item>> ELSE arg.coll

\* A backend failure injected into one call: the primitive prim raises while the
\* pos-th item of the loop is processed (pos = 0: the backend does not fail).
NoFail == [pos |-> 0, prim |-> ""]
Fails(pos, prim, st) == st.fail.pos = pos /\ st.fail.prim = prim

Call(prim, item, created) == [prim |-> prim, key |-> Key(item), created |-> created]

\* State of one call of register/unregister: the backend, the primitive calls that
\* completed, the exception that escaped ("" when none), the loop position.
Start(self, fail) == [self |-> self, calls |-> <<>>, error |-> "", fail |-> fail, pos |-> 1]

Raise(st, prim) == [st EXCEPT !.error = prim]

CreatedAlwaysNow(item, t) == t

\* Line 53: created = item.created_at if isinstance(item, Timestamped) else datetime.now()
Created(item, t) == IF item.timestamped THEN item.created_at ELSE t

DoRegister(st, item, created) ==
    IF Fails(st.pos, "_register", st) THEN Raise(st, "_register")
    ELSE [st EXCEPT !.self = _register(st.self, item, created),
                    !.calls = Append(@, Call("_register", item, created)),
                    !.pos = @ + 1]

RegisterOneNoCheck(st, item, t) ==
    IF Fails(st.pos, "get_age", st) THEN Raise(st, "get_age")
    ELSE DoRegister(st, item, Created(item, t))

RegisterOneRefresh(st, item, t) ==
    IF Fails(st.pos, "get_age", st) THEN Raise(st, "get_age")
    ELSE IF get_age(st.self, item, t) = None
         THEN DoRegister(st, item, Created(item, t))
         ELSE DoRegister([st EXCEPT !.self = _unregister(st.self, item)], item, t)

\* Lines 52-54: the body of register's loop for one item.
RegisterOne(st, item, t) ==
    IF Fails(st.pos, "get_age", st) THEN Raise(st, "get_age")
    ELSE IF get_age(st.self, item, t) = None
         THEN DoRegister(st, item, Created(item, t))
         ELSE [st EXCEPT !.pos = @ + 1]

RECURSIVE RegisterLoop(_, _, _)
RegisterLoop(st, items, t) ==
    IF items = <<>> \/ st.error # "" THEN st
    ELSE RegisterLoop(RegisterOne(st, Head(items), t), Tail(items), t)

\* The untracked items are selected before the loop instead of inside it.
registerFilterFirst(self, arg, t, fail) ==
    LET untracked == SelectSeq(AsItems(arg), LAMBDA i : get_age(self, i, t) = None)
        st == Start(self, [pos |-> 0, prim |-> ""])
        RECURSIVE Loop(_, _)
        Loop(a, items) ==
            IF items = <<>> THEN a
            ELSE Loop(DoRegister(a, Head(items), Created(Head(items), t)), Tail(items))
    IN  [Loop(st, untracked) EXCEPT !.fail = fail]

\* The records written before a failure are taken back when the failure escapes.
registerRollback(self, arg, t, fail) ==
    LET r == RegisterLoop(Start(self, fail), AsItems(arg), t)
    IN  IF r.error # "" THEN [r EXCEPT !.self = self] ELSE r

\* Lines 50-54
register(self, arg, t, fail) == RegisterLoop(Start(self, fail), AsItems(arg), t)

UnregisterOneThenReturn(st, item) ==
    IF st.pos > 1 THEN st
    ELSE IF Fails(st.pos, "_unregister", st) THEN Raise(st, "_unregister")
    ELSE [st EXCEPT !.self = _unregister(st.self, item),
                    !.calls = Append(@, Call("_unregister", item, 0)),
                    !.pos = @ + 1]

UnregisterOneStrict(st, item) ==
    IF Fails(st.pos, "_unregister", st) THEN Raise(st, "_unregister")
    ELSE IF st.self[Key(item)] = <<>> THEN Raise(st, "KeyError")
    ELSE [st EXCEPT !.self = _unregister(st.self, item),
                    !.calls = Append(@, Call("_unregister", item, 0)),
                    !.pos = @ + 1]

\* Line 64: the body of unregister's loop for one item.
UnregisterOne(st, item) ==
    IF Fails(st.pos, "_unregister", st) THEN Raise(st, "_unregister")
    ELSE [st EXCEPT !.self = _unregister(st.self, item),
                    !.calls = Append(@, Call("_unregister", item, 0)),
                    !.pos = @ + 1]

RECURSIVE UnregisterLoop(_, _)
UnregisterLoop(st, items) ==
    IF items = <<>> \/ st.error # "" THEN st
    ELSE UnregisterLoop(UnregisterOne(st, Head(items)), Tail(items))

\* Lines 62-64
unregister(self, arg, fail) == UnregisterLoop(Start(self, fail), AsItems(arg))

----------------------------------------------------------------------------
(* Detectors *)

Verdict(prevent, reason) == [raised |-> "", prevent |-> prevent, reason |-> reason]

\* An exception escaping the detector instead of a (prevent, reason) tuple.
Raised(exc) == [raised |-> exc, prevent |-> FALSE, reason |-> [text |-> ""]]

AgeLt(item_age, age) == item_age[1] < age

\* Line 79: item_age <= age
AgeLeq(item_age, age) == item_age[1] <= age

\* Lines 70-82: the factory defines the closure and returns it; age is not inspected.
create_delete_if_older_than_detector(age) == [raised |-> "", age |-> age]

\* The detector returned by create_delete_if_older_than_detector(age).
delete_if_older_than_detector(age, item, self, t) ==
    LET item_age == get_age(self, item, t)
    IN  IF item_age = None THEN Raised("TypeError")
        ELSE LET prevent_delete == AgeLeq(item_age, age)
             IN  Verdict(prevent_delete,
                         [text |-> "Item age", item_age |-> item_age,
                          not |-> prevent_delete, older_than |-> age])

\* Line 43/63: {item for item in already_marked_for_deletion if type(item) == OpenstackInstance}
InstancesMarkedForDeletion(already_marked_for_deletion) ==
    {item \in already_marked_for_deletion : item.type = "OpenstackInstance"}

ImageBlocksIgnoreMarked(instance, image, instances_marked_for_deletion) ==
    instance.image = image.identifier

\* Line 45: the instance uses the image and is not marked for deletion.
ImageBlocks(instance, image, instances_marked_for_deletion) ==
    instance.image = image.identifier /\ ~In(instance, instances_marked_for_deletion)

\* Line 65: the instance uses the key pair and is not marked for deletion.
KeyPairBlocks(instance, key_pair, instances_marked_for_deletion) ==
    instance.key_name = key_pair.name /\ ~In(instance, instances_marked_for_deletion)

RECURSIVE ImageInUseLoop(_, _, _)
ImageInUseLoop(instances, image, instances_marked_for_deletion) ==
    IF instances = <<>> THEN Verdict(FALSE, [text |-> "No instances are using the image"])
    ELSE IF ImageBlocks(Head(instances), image, instances_marked_for_deletion)
         THEN Verdict(TRUE, [text |-> "Image cannot be deleted because it is in use by the instance",
                             instance |-> Key(Head(instances))])
         ELSE ImageInUseLoop(Tail(instances), image, instances_marked_for_deletion)

\* A failed listing is taken for an empty one.
image_in_use_detector_swallowing(image, listing, already_marked_for_deletion) ==
    IF listing.raises THEN Verdict(FALSE, [text |-> "No instances are using the image"])
    ELSE ImageInUseLoop(listing.instances, image,
                        InstancesMarkedForDeletion(already_marked_for_deletion))

\* instance_manager.get_all() raises when the listing fails; the detector does not catch it.
prevent_delete_image_in_use_detector(image, listing, already_marked_for_deletion) ==
    IF listing.raises THEN Raised("CloudError")
    ELSE ImageInUseLoop(listing.instances, image,
                        InstancesMarkedForDeletion(already_marked_for_deletion))

RECURSIVE KeyPairInUseLoop(_, _, _)
KeyPairInUseLoop(instances, key_pair, instances_marked_for_deletion) ==
    IF instances = <<>> THEN Verdict(FALSE, [text |-> "No instances are using the key pair"])
    ELSE IF KeyPairBlocks(Head(instances), key_pair, instances_marked_for_deletion)
         THEN Verdict(TRUE, [text |-> "Key pair in use by instance",
                             instance |-> Key(Head(instances))])
         ELSE KeyPairInUseLoop(Tail(instances), key_pair, instances_marked_for_deletion)

prevent_delete_key_pair_in_use_detector(key_pair, listing, already_marked_for_deletion) ==
    IF listing.raises THEN Raised("CloudError")
    ELSE KeyPairInUseLoop(listing.instances, key_pair,
                          InstancesMarkedForDeletion(already_marked_for_deletion))

\* Line 27
prevent_delete_protected_image_detector(image) ==
    Verdict(image.protected, [text |-> "Image is marked on OpenStack as protected",
                              not |-> ~image.protected])

----------------------------------------------------------------------------
(* Tracker operations and the age detector over time *)

Batches == UNION {[1..n -> TrackedItems] : n \in 0..MaxBatch}
Args == {Single(i) : i \in TrackedItems} \cup {Coll(b) : b \in Batches}
Thresholds == 0..MaxThreshold

FailsOf(arg, prims) ==
    {NoFail} \cup {[pos |-> p, prim |-> q] : p \in 1..Len(AsItems(arg)), q \in prims}

\* firstCreated after the completed primitive calls of one operation.
RECURSIVE Replay(_, _)
Replay(fc, calls) ==
    IF calls = <<>> THEN fc
    ELSE LET c == Head(calls)
             fc1 == IF c.prim = "_unregister" THEN [fc EXCEPT ![c.key] = None]
                    ELSE IF fc[c.key] = None THEN [fc EXCEPT ![c.key] = Some(c.created)]
                    ELSE fc
         IN  Replay(fc1, Tail(calls))

\* State of the other specifications, untouched by the operations of this one.
Aux == <<threads, excludes, previous>>
AuxInit ==
    /\ threads = <<>>
    /\ excludes = [kind |-> "collection", patterns |-> <<>>, pos |-> 0]
    /\ previous = [k \in Keys |-> None]

NoPass == <<cloud, marked, config, pass, idx, decisions, threads, excludes, previous>>

TrackerInit ==
    /\ rows = [k \in Keys |-> <<>>]
    /\ now = 0
    /\ firstCreated = [k \in Keys |-> None]
    /\ last = [op |-> "init"]

Init ==
    /\ TrackerInit
    /\ cloud = [raises |-> FALSE, instances |-> <<>>]
    /\ marked = {}
    /\ config = <<>>
    /\ pass = <<>>
    /\ idx = 0
    /\ decisions = <<>>
    /\ AuxInit

\* The wall clock advances.
Tick ==
    /\ now < MaxTime
    /\ now' = now + 1
    /\ UNCHANGED <<rows, firstCreated, last>>

\* tracker.register(arg)
Register(arg, fail) ==
    LET r == register(rows, arg, now, fail)
    IN  /\ rows' = r.self
        /\ firstCreated' = Replay(firstCreated, r.calls)
        /\ last' = [op |-> "register", arg |-> arg, fail |-> fail, pre |-> rows,
                    at |-> now, calls |-> r.calls, error |-> r.error]
        /\ UNCHANGED now

\* tracker.unregister(arg)
Unregister(arg, fail) ==
    LET r == unregister(rows, arg, fail)
    IN  /\ rows' = r.self
        /\ firstCreated' = Replay(firstCreated, r.calls)
        /\ last' = [op |-> "unregister", arg |-> arg, fail |-> fail, pre |-> rows,
                    at |-> now, calls |-> r.calls, error |-> r.error]
        /\ UNCHANGED now

\* The age detector registers an item it finds untracked before it reads the age.
EvalAgeRegistering(item, age) ==
    LET r == register(rows, Single(item), now, NoFail)
    IN  /\ rows' = r.self
        /\ last' = [op |-> "older_than", item |-> item, age |-> age, at |-> now,
                    pre |-> rows,
                    result |-> delete_if_older_than_detector(age, item, r.self, now)]
        /\ UNCHANGED <<now, firstCreated>>

\* detector(item, credentials, tracker, already_marked_for_deletion) of the age factory
EvalAge(item, age) ==
    /\ create_delete_if_older_than_detector(age).raised = ""
    /\ last' = [op |-> "older_than", item |-> item, age |-> age, at |-> now,
                pre |-> rows, result |-> delete_if_older_than_detector(age, item, rows, now)]
    /\ UNCHANGED <<rows, now, firstCreated>>

Next ==
    \/ Tick /\ UNCHANGED NoPass
    \/ \E arg \in Args : \E fail \in FailsOf(arg, {"get_age", "_register"}) :
          Register(arg, fail) /\ UNCHANGED NoPass
    \/ \E arg \in Args : \E fail \in FailsOf(arg, {"_unregister"}) :
          Unregister(arg, fail) /\ UNCHANGED NoPass
    \/ \E item \in TrackedItems : \E age \in Thresholds :
          EvalAge(item, age) /\ UNCHANGED NoPass

Spec == Init /\ [][Next]_vars

----------------------------------------------------------------------------
(* Properties of the tracker and of the age detector *)

ItemOf(k) == CHOOSE i \in Items : Key(i) = k
ArgItems == {AsItems(last.arg)[i] : i \in 1..Len(AsItems(last.arg))}
ArgKeys == {Key(i) : i \in ArgItems}
Tracked(self, k) == self[k] # <<>>
CallsFor(k) == {i \in 1..Len(last.calls) : last.calls[i].key = k}

\* C1: register on an item that already has a record never invokes _register for
\* it and leaves the stored created timestamp as set by the first registration.
C1_IdempotentRegistration ==
    /\ \A k \in Keys : Tracked(rows, k) => rows[k] = firstCreated[k]
    /\ last.op = "register" =>
          \A k \in Keys : Tracked(last.pre, k) =>
              CallsFor(k) = {} /\ rows[k] = last.pre[k]

\* A register call that returned, on an item tracked since an earlier time.
C1_Witness ==
    /\ last.op = "register" /\ last.error = ""
    /\ \E k \in ArgKeys :
          Tracked(last.pre, k) /\ ~ItemOf(k).timestamped /\ last.pre[k][1] < last.at

\* C2: the tracker holds at most one record per (identifier, item_type); every
\* _register call is made for an item that has no record at that moment.
C2_OneRecordPerKey ==
    /\ \A k \in Keys : Len(rows[k]) <= 1
    /\ last.op = "register" =>
          \A k \in Keys : CallsFor(k) # {} =>
              ~Tracked(last.pre, k) /\ Cardinality(CallsFor(k)) = 1

\* A collection holding the same untracked item twice was registered.
C2_Witness ==
    /\ last.op = "register" /\ last.error = "" /\ ~last.arg.isItem
    /\ \E i, j \in 1..Len(last.arg.coll) :
          i < j /\ last.arg.coll[i] = last.arg.coll[j]
               /\ ~Tracked(last.pre, Key(last.arg.coll[i]))

C5_CreatedValue ==
    last.op = "register" =>
        \A i \in 1..Len(last.calls) :
            LET c == last.calls[i]
                item == ItemOf(c.key)
            IN  /\ c.created = IF item.timestamped THEN item.created_at ELSE last.at
                /\ rows[c.key][1] = c.created

\* One register call created records for a Timestamped and a plain item, at a
\* time that differs from the Timestamped item's created_at.
C5_Witness ==
    /\ last.op = "register"
    /\ \E i, j \in 1..Len(last.calls) :
          /\ ItemOf(last.calls[i].key).timestamped
          /\ ~ItemOf(last.calls[j].key).timestamped
          /\ ItemOf(last.calls[i].key).created_at # last.at
          /\ last.at > 0

\* C6: while an item keeps its registration, its age never decreases from one
\* step to the next, whatever register calls happen in between.
C6_AgeMonotonic ==
    [][\A item \in TrackedItems :
          (get_age(rows, item, now) # None /\ get_age(rows', item, now') # None) =>
              get_age(rows', item, now')[1] >= get_age(rows, item, now)[1]]_vars

\* register was called again on an item of positive age, and time went on.
C6_Witness ==
    /\ last.op = "register" /\ last.error = ""
    /\ now > last.at
    /\ \E item \in ArgItems :
          /\ Tracked(last.pre, Key(item))
          /\ get_age(last.pre, item, last.at)[1] > 0
          /\ get_age(rows, item, now)[1] > get_age(last.pre, item, last.at)[1]

\* C7: for a tracked item the age detector returns prevent = TRUE iff
\* get_age(item) <= threshold.
C7_AgeBoundary ==
    (last.op = "older_than" /\ get_age(last.pre, last.item, last.at) # None) =>
        /\ last.result.raised = ""
        /\ last.result.prevent <=> (get_age(last.pre, last.item, last.at)[1] <= last.age)

\* An item whose age equals the threshold exactly was evaluated and protected.
C7_Witness ==
    /\ last.op = "older_than"
    /\ get_age(last.pre, last.item, last.at) = Some(last.age)
    /\ last.age > 0
    /\ last.result.prevent

\* C8: when the tracker has no record of the item, the age detector returns
\* prevent = TRUE with a reason and does not fail.
C8_AbsentAgeProtects ==
    (last.op = "older_than" /\ get_age(last.pre, last.item, last.at) = None) =>
        /\ last.result.raised = ""
        /\ last.result.prevent

----------------------------------------------------------------------------
(* The in-use detectors over every listing and every marked set *)

\* Sequences of pairwise different elements of S, of length at most n.
DistinctSeqs(S, n) ==
    {q \in UNION {[1..m -> S] : m \in 0..n} : \A i, j \in 1..Len(q) : i # j => q[i] # q[j]}

Listings ==
    {[raises |-> FALSE, instances |-> q] : q \in DistinctSeqs(Instances, MaxCloud)}
        \cup {[raises |-> TRUE, instances |-> <<>>]}

InitInUse ==
    /\ TrackerInit
    /\ cloud \in Listings
    /\ marked \in SUBSET Items
    /\ config = <<>>
    /\ pass = <<>>
    /\ idx = 0
    /\ decisions = <<>>
    /\ AuxInit

EvalImageInUse(image) ==
    /\ last' = [op |-> "image_in_use", item |-> image, cloud |-> cloud, marked |-> marked,
                result |-> prevent_delete_image_in_use_detector(image, cloud, marked)]
    /\ UNCHANGED <<rows, now, firstCreated, cloud, marked, config, pass, idx, decisions>>
    /\ UNCHANGED Aux

EvalKeyPairInUse(key_pair) ==
    /\ last' = [op |-> "key_pair_in_use", item |-> key_pair, cloud |-> cloud, marked |-> marked,
                result |-> prevent_delete_key_pair_in_use_detector(key_pair, cloud, marked)]
    /\ UNCHANGED <<rows, now, firstCreated, cloud, marked, config, pass, idx, decisions>>
    /\ UNCHANGED Aux

NextInUse ==
    \/ \E image \in Images : EvalImageInUse(image)
    \/ \E key_pair \in Keypairs : EvalKeyPairInUse(key_pair)

SpecInUse == InitInUse /\ [][NextInUse]_vars

\* The instances of the listing that are not Instance-typed members of the marked set.
Unmarked(listing, already_marked) ==
    {listing.instances[i] : i \in
        {j \in 1..Len(listing.instances) :
            ~\E m \in already_marked : /\ m.type = "OpenstackInstance"
                                       /\ m.identifier = listing.instances[j].identifier}}

\* C9: the image-in-use detector prevents iff some listed instance that is not an
\* Instance-typed member of the marked set has instance.image = image.identifier;
\* the keypair-in-use detector likewise on instance.key_name = keypair.name.
C9_InUseDetectors ==
    /\ (last.op = "image_in_use" /\ ~last.cloud.raises) =>
          /\ last.result.raised = ""
          /\ last.result.prevent <=>
                \E instance \in Unmarked(last.cloud, last.marked) :
                    instance.image = last.item.identifier
    /\ (last.op = "key_pair_in_use" /\ ~last.cloud.raises) =>
          /\ last.result.raised = ""
          /\ last.result.prevent <=>
                \E instance \in Unmarked(last.cloud, last.marked) :
                    instance.key_name = last.item.name

\* Two listed instances use the image: one is marked, the other is not, and the
\* marked set holds a non-instance item with the unmarked instance's identifier.
C9_Witness ==
    /\ last.op = "image_in_use" /\ last.result.prevent
    /\ \E a, b \in Instances :
          /\ a # b
          /\ \E i, j \in 1..Len(last.cloud.instances) :
                last.cloud.instances[i] = a /\ last.cloud.instances[j] = b
          /\ a.image = last.item.identifier /\ b.image = last.item.identifier
          /\ a \in last.marked /\ b \notin last.marked
          /\ \E m \in last.marked :
                m.type # "OpenstackInstance" /\ m.identifier = b.identifier

----------------------------------------------------------------------------
(* The cleanup pass: every configured detector is run on each candidate item *)

Detector(kind, age) == [kind |-> kind, age |-> age]

ConfigurableDetectors ==
    {Detector("protected", 0), Detector("image_in_use", 0),
     Detector("key_pair_in_use", 0), Detector("older_than", 1)}

\* The item types a detector is evaluated on.
Applicable(detector, item) ==
    CASE detector.kind \in {"protected", "image_in_use"} -> item.type = "OpenstackImage"
      [] detector.kind = "key_pair_in_use" -> item.type = "OpenstackKeypair"
      [] OTHER -> TRUE

\* detector(item, credentials, tracker, already_marked_for_deletion)
RunDetector(detector, item, self, t, listing, already_marked) ==
    CASE detector.kind = "protected" -> prevent_delete_protected_image_detector(item)
      [] detector.kind = "image_in_use" ->
            prevent_delete_image_in_use_detector(item, listing, already_marked)
      [] detector.kind = "key_pair_in_use" ->
            prevent_delete_key_pair_in_use_detector(item, listing, already_marked)
      [] OTHER -> delete_if_older_than_detector(detector.age, item, self, t)

\* The results of the applicable detectors, in configuration order.
RECURSIVE RunAll(_, _, _, _, _, _)
RunAll(detectors, item, self, t, listing, already_marked) ==
    IF detectors = <<>> THEN <<>>
    ELSE LET rest == RunAll(Tail(detectors), item, self, t, listing, already_marked)
         IN  IF Applicable(Head(detectors), item)
             THEN <<[detector |-> Head(detectors),
                     result |-> RunDetector(Head(detectors), item, self, t,
                                            listing, already_marked)]>> \o rest
             ELSE rest

EligibleFirstVoteOnly(votes) == votes = <<>> \/ ~votes[1].result.prevent

\* Logical OR of the votes: any prevent = TRUE vetoes the deletion.
Eligible(votes) == \A i \in 1..Len(votes) : ~votes[i].result.prevent

MarkedAfterAlways(already_marked, item, votes) == already_marked \cup {item}

\* An item no detector vetoed joins the marked set before the next item is evaluated.
MarkedAfter(already_marked, item, votes) ==
    IF Eligible(votes) THEN already_marked \cup {item} ELSE already_marked

AnyRaised(votes) == \E i \in 1..Len(votes) : votes[i].result.raised # ""

RECURSIVE SetToSeq(_)
SetToSeq(S) ==
    IF S = {} THEN <<>>
    ELSE LET x == CHOOSE y \in S : TRUE IN <<x>> \o SetToSeq(S \ {x})

\* Tracked items the enumeration no longer holds.
Vanished(self, items) ==
    {i \in Items : self[Key(i)] # <<>> /\ \A j \in 1..Len(items) : ~ItemEq(items[j], i)}

PassItems == {Image1, Keypair1, Instance1, Instance2}
PassListings ==
    {[raises |-> FALSE, instances |-> q] : q \in DistinctSeqs({Instance1, Instance2}, MaxCloud)}
        \cup {[raises |-> TRUE, instances |-> <<>>]}
Configs == DistinctSeqs(ConfigurableDetectors, MaxDetectors)

\* Records a previous run left in the tracker.
PersistedRows ==
    {[k \in Keys |-> <<>>],
     [k \in Keys |-> IF k \in {Key(Image1), Key(Keypair2)} THEN <<0>> ELSE <<>>]}

InitPass ==
    /\ rows \in PersistedRows
    /\ now = 0
    /\ firstCreated = rows
    /\ last = [op |-> "init"]
    /\ cloud \in PassListings
    /\ config \in Configs
    /\ marked = {}
    /\ pass = <<>>
    /\ idx = 0
    /\ decisions = <<>>
    /\ AuxInit

PassTick ==
    /\ Tick
    /\ UNCHANGED <<cloud, marked, config, pass, idx, decisions>>
    /\ UNCHANGED Aux

\* The enumerated items are registered, the vanished ones unregistered, and the
\* pass starts with an empty marked set.
StartPass(items) ==
    /\ last.op = "init"
    /\ \A i \in 1..Len(items) :
          items[i].type = "OpenstackInstance" =>
              \E j \in 1..Len(cloud.instances) : cloud.instances[j] = items[i]
    /\ LET u == unregister(rows, Coll(SetToSeq(Vanished(rows, items))), NoFail)
           r == register(u.self, Coll(items), now, NoFail)
       IN  /\ rows' = r.self
           /\ firstCreated' = Replay(firstCreated, u.calls \o r.calls)
    /\ pass' = items
    /\ idx' = 0
    /\ marked' = {}
    /\ decisions' = <<>>
    /\ last' = [op |-> "start_pass"]
    /\ UNCHANGED <<now, cloud, config>>
    /\ UNCHANGED Aux

\* The next item of the pass is decided; an exception of a detector ends the pass.
Evaluate ==
    /\ last.op \in {"start_pass", "evaluate"}
    /\ idx < Len(pass)
    /\ LET item == pass[idx + 1]
           votes == RunAll(config, item, rows, now, cloud, marked)
       IN  IF AnyRaised(votes)
           THEN /\ last' = [op |-> "aborted", item |-> item]
                /\ UNCHANGED <<marked, decisions, idx>>
           ELSE /\ decisions' = Append(decisions,
                                       [item |-> item, eligible |-> Eligible(votes),
                                        votes |-> votes, at |-> now, marked |-> marked])
                /\ marked' = MarkedAfter(marked, item, votes)
                /\ idx' = idx + 1
                /\ last' = [op |-> "evaluate", item |-> item]
    /\ UNCHANGED <<rows, now, firstCreated, cloud, config, pass>>
    /\ UNCHANGED Aux

NextPass ==
    \/ PassTick
    \/ \E items \in DistinctSeqs(PassItems, MaxPass) : StartPass(items)
    \/ Evaluate

SpecPass == InitPass /\ [][NextPass]_vars

ApplicableDetectors(item) ==
    {i \in 1..Len(config) : Applicable(config[i], item)}

\* C10: a decided item is eligible for deletion iff no configured detector
\* returned prevent = TRUE on it, and the decision holds the result and reason
\* of every applicable detector of the list, vetoing or not.
C10_OrSemantics ==
    \A n \in 1..Len(decisions) :
        LET d == decisions[n]
            Vote(i) == RunDetector(config[i], d.item, rows, d.at, cloud, d.marked)
        IN  /\ d.eligible <=> \A i \in ApplicableDetectors(d.item) : ~Vote(i).prevent
            /\ Len(d.votes) = Cardinality(ApplicableDetectors(d.item))
            /\ \A i \in ApplicableDetectors(d.item) :
                  \E j \in 1..Len(d.votes) :
                      d.votes[j].detector = config[i] /\ d.votes[j].result = Vote(i)

\* Two detectors voted on an item: the first did not prevent, the second did,
\* the item was not made eligible and both reasons were kept.
C10_Witness ==
    \E n \in 1..Len(decisions) :
        /\ Len(decisions[n].votes) = 2
        /\ ~decisions[n].votes[1].result.prevent
        /\ decisions[n].votes[2].result.prevent
        /\ ~decisions[n].eligible

\* The items of the decisions before the n-th that were found eligible.
EligibleBefore(n) == {decisions[m].item : m \in {q \in 1..(n - 1) : decisions[q].eligible}}

\* C11: the marked set starts empty and, when the n-th item is evaluated, holds
\* exactly the earlier items of the pass that no detector vetoed; so the in-use
\* vote on an image or keypair is prevent iff a listed instance uses it and was
\* not found eligible earlier in the pass.
C11_MarkedOrdering ==
    /\ last.op \in {"start_pass", "evaluate", "aborted"} =>
          marked = EligibleBefore(Len(decisions) + 1)
    /\ \A n \in 1..Len(decisions) :
          LET d == decisions[n]
          IN  /\ d.marked = EligibleBefore(n)
              /\ \A j \in 1..Len(d.votes) :
                    /\ d.votes[j].detector.kind = "image_in_use" =>
                          (d.votes[j].result.prevent <=>
                              \E i \in 1..Len(cloud.instances) :
                                  /\ cloud.instances[i].image = d.item.identifier
                                  /\ cloud.instances[i] \notin EligibleBefore(n))
                    /\ d.votes[j].detector.kind = "key_pair_in_use" =>
                          (d.votes[j].result.prevent <=>
                              \E i \in 1..Len(cloud.instances) :
                                  /\ cloud.instances[i].key_name = d.item.name
                                  /\ cloud.instances[i] \notin EligibleBefore(n))

\* An instance was vetoed, and the image it uses, evaluated after it, was blocked
\* by it, while the pass had already marked nothing.
C11_VetoedStillBlocks ==
    /\ Len(decisions) = 2
    /\ decisions[1].item.type = "OpenstackInstance" /\ ~decisions[1].eligible
    /\ decisions[2].item.type = "OpenstackImage"
    /\ decisions[1].item.image = decisions[2].item.identifier
    /\ \E j \in 1..Len(decisions[2].votes) :
          /\ decisions[2].votes[j].detector.kind = "image_in_use"
          /\ decisions[2].votes[j].result.prevent
          /\ decisions[2].votes[j].result.reason.instance = Key(decisions[1].item)

\* An instance found eligible earlier does not block the image it uses.
C11_Witness ==
    /\ Len(decisions) = 2
    /\ decisions[1].item.type = "OpenstackInstance" /\ decisions[1].eligible
    /\ decisions[2].item.type = "OpenstackImage"
    /\ decisions[1].item.image = decisions[2].item.identifier
    /\ \E j \in 1..Len(decisions[2].votes) :
          /\ decisions[2].votes[j].detector.kind = "image_in_use"
          /\ ~decisions[2].votes[j].result.prevent

----------------------------------------------------------------------------
(* Misconfiguration and failing collaborators *)

\* C13: a zero or negative threshold fails the factory call, so no age detector
\* built from such a threshold is ever evaluated on an item.
C13_ConfigErrorsAtConstruction ==
    last.op = "older_than" => last.age > 0

\* C14: when the listing of the instances fails, the in-use detectors raise; they
\* return no verdict for that evaluation.
C14_ListingFailurePropagates ==
    (last.op \in {"image_in_use", "key_pair_in_use"} /\ last.cloud.raises) =>
        last.result.raised # ""

\* The image-in-use detector was evaluated against a failing listing and raised.
C14_Witness ==
    /\ last.op = "image_in_use"
    /\ last.cloud.raises
    /\ last.result.raised = "CloudError"

----------------------------------------------------------------------------
(* The exclude detector *)

\* A compiled pattern is a sequence of tokens: a literal character or ".", each
\* possibly starred. Names are sequences of characters.
Lit(c) == [ch |-> c, any |-> FALSE, star |-> FALSE]
AnyChar == [ch |-> "", any |-> TRUE, star |-> FALSE]
Star(tok) == [tok EXCEPT !.star = TRUE]

TokenMatches(tok, c) == tok.any \/ tok.ch = c

\* Pattern.fullmatch(string) is not None: the whole string matches the pattern.
RECURSIVE re_fullmatch(_, _)
re_fullmatch(pattern, string) ==
    IF pattern = <<>> THEN string = <<>>
    ELSE IF Head(pattern).star
         THEN \/ re_fullmatch(Tail(pattern), string)
              \/ /\ string # <<>>
                 /\ TokenMatches(Head(pattern), Head(string))
                 /\ re_fullmatch(pattern, Tail(string))
         ELSE /\ string # <<>>
              /\ TokenMatches(Head(pattern), Head(string))
              /\ re_fullmatch(Tail(pattern), Tail(string))

\* Pattern.search(string) is not None: some substring matches the pattern.
re_search(pattern, string) ==
    \E i \in 1..(Len(string) + 1) : \E j \in (i - 1)..Len(string) :
        re_fullmatch(pattern, SubSeq(string, i, j))

ExcludeMatchesSearch(exclude, item) == re_search(exclude, item.name)

\* Line 94: exclude.fullmatch(item.name) is not None
ExcludeMatches(exclude, item) == re_fullmatch(exclude, item.name)

\* An Iterable of patterns: a collection starts a new traversal at its first
\* element every time; an iterator hands out each element once, pos counts them.
Remaining(iterable) ==
    IF iterable.kind = "collection" THEN iterable.patterns
    ELSE SubSeq(iterable.patterns, iterable.pos + 1, Len(iterable.patterns))

Consumed(iterable, n) ==
    IF iterable.kind = "collection" THEN iterable
    ELSE [iterable EXCEPT !.pos = @ + n]

LastMatch(patterns, item) ==
    IF \E i \in 1..Len(patterns) : ExcludeMatches(patterns[i], item)
    THEN CHOOSE i \in 1..Len(patterns) :
            /\ ExcludeMatches(patterns[i], item)
            /\ \A j \in (i + 1)..Len(patterns) : ~ExcludeMatches(patterns[j], item)
    ELSE 0

\* Lines 93-95: the position at which the loop returns, 0 when it runs to its end.
RECURSIVE FirstMatchFrom(_, _, _)
FirstMatchFrom(patterns, item, i) ==
    IF i > Len(patterns) THEN 0
    ELSE IF ExcludeMatches(patterns[i], item) THEN i
    ELSE FirstMatchFrom(patterns, item, i + 1)

FirstMatch(patterns, item) == FirstMatchFrom(patterns, item, 1)

ExcludeReason(text, pattern, patterns) ==
    [text |-> text, pattern |-> pattern, patterns |-> patterns]

\* The detector returned by create_exclude_detector(excludes): its verdict and the
\* state in which it leaves the captured excludes.
exclude_detector(iterable, item) ==
    LET offered == Remaining(iterable)
        i == FirstMatch(offered, item)
    IN  IF i > 0
        THEN [result |-> Verdict(TRUE, ExcludeReason("Exclude matched", offered[i], <<>>)),
              excludes |-> Consumed(iterable, i)]
        ELSE LET after == Consumed(iterable, Len(offered))
             IN  [result |-> Verdict(FALSE, ExcludeReason("Excludes not matched", <<>>,
                                                          Remaining(after))),
                  excludes |-> Consumed(after, Len(Remaining(after)))]

\* Line 85-98: the factory captures excludes as given.
create_exclude_detector(patterns, kind) == [kind |-> kind, patterns |-> patterns, pos |-> 0]

Alphabet == {"t", "x"}
Names == UNION {[1..n -> Alphabet] : n \in 0..MaxName}
NamedItems == {MkItem("OpenstackImage", 1, name, FALSE, 0, FALSE, 0, "") : name \in Names}

\* t.*  .*x  x
Patterns == {<<Lit("t"), Star(AnyChar)>>, <<Star(AnyChar), Lit("x")>>, <<Lit("x")>>}
PatternLists == DistinctSeqs(Patterns, MaxPatterns)

InitExclude ==
    /\ TrackerInit
    /\ cloud = [raises |-> FALSE, instances |-> <<>>]
    /\ marked = {}
    /\ config = <<>>
    /\ pass = <<>>
    /\ idx = 0
    /\ decisions = <<>>
    /\ threads = <<>>
    /\ previous = [k \in Keys |-> None]
    /\ excludes \in {create_exclude_detector(q, kind) :
                        q \in PatternLists, kind \in {"collection", "iterator"}}

\* detector(item, credentials, tracker, already_marked_for_deletion) of the exclude factory
EvalExclude(item) ==
    LET r == exclude_detector(excludes, item)
    IN  /\ last' = [op |-> "exclude", item |-> item, excludes |-> excludes,
                    result |-> r.result]
        /\ excludes' = r.excludes
        /\ UNCHANGED <<rows, now, firstCreated, cloud, marked, config, pass, idx, decisions,
                       threads, previous>>

NextExclude == \E item \in NamedItems : EvalExclude(item)

SpecExclude == InitExclude /\ [][NextExclude]_vars

Configured == last.excludes.patterns
MatchingPatterns ==
    {i \in 1..Len(Configured) : re_fullmatch(Configured[i], last.item.name)}

\* C15: the exclude detector returns prevent = TRUE iff the whole name of the item
\* matches at least one configured pattern.
C15_ExcludeAnchoring ==
    last.op = "exclude" => (last.result.prevent <=> MatchingPatterns # {})

\* The same, for excludes given as a collection that can be traversed repeatedly.
C15_AnchoringOfCollections ==
    (last.op = "exclude" /\ last.excludes.kind = "collection") =>
        (last.result.prevent <=> MatchingPatterns # {})

\* A name that holds a match of a configured pattern only as a proper substring.
C15_SubstringNotExcluded ==
    /\ last.op = "exclude" /\ last.excludes.kind = "collection"
    /\ ~last.result.prevent
    /\ \E i \in 1..Len(Configured) : re_search(Configured[i], last.item.name)

\* C16: the reason lists all configured patterns when none matches, and names
\* the first matching pattern in configuration order when one matches.
C16_ExcludeReason ==
    last.op = "exclude" =>
        /\ last.result.reason.text # ""
        /\ MatchingPatterns = {} => last.result.reason.patterns = Configured
        /\ MatchingPatterns # {} =>
              \E i \in MatchingPatterns :
                  /\ \A j \in MatchingPatterns : i <= j
                  /\ last.result.reason.pattern = Configured[i]

\* The same, for excludes given as a collection that can be traversed repeatedly.
C16_ReasonOfCollections ==
    (last.op = "exclude" /\ last.excludes.kind = "collection") => C16_ExcludeReason

\* Two configured patterns match the name and the reason names the first.
C16_FirstOfTwo ==
    /\ last.op = "exclude" /\ last.excludes.kind = "collection"
    /\ Cardinality(MatchingPatterns) = 2
    /\ last.result.reason.pattern = Configured[1]

\* C20: every evaluation of an exclude detector returns the verdict and the
\* reason a fresh detector built from the same patterns returns for the item.
C20_StatelessDetector ==
    last.op = "exclude" =>
        last.result =
            exclude_detector(
                create_exclude_detector(Configured, last.excludes.kind), last.item).result

----------------------------------------------------------------------------
(* Every detector, evaluated against a tracker and a marked set that hold entries *)

DetectorOps == {"protected", "image_in_use", "key_pair_in_use", "older_than", "exclude"}

InitDetectors ==
    /\ rows \in PersistedRows
    /\ now = 0
    /\ firstCreated = rows
    /\ last = [op |-> "init"]
    /\ cloud \in {[raises |-> FALSE, instances |-> <<Instance1, Instance2>>],
                  [raises |-> TRUE, instances |-> <<>>]}
    /\ marked \in SUBSET {Image1, Instance1}
    /\ config = <<>>
    /\ pass = <<>>
    /\ idx = 0
    /\ decisions = <<>>
    /\ threads = <<>>
    /\ previous = [k \in Keys |-> None]
    /\ excludes \in {create_exclude_detector(<<q>>, kind) :
                        q \in Patterns, kind \in {"collection", "iterator"}}

EvalProtected(image) ==
    /\ last' = [op |-> "protected", item |-> image,
                result |-> prevent_delete_protected_image_detector(image)]
    /\ UNCHANGED <<rows, now, firstCreated, cloud, marked, config, pass, idx, decisions>>
    /\ UNCHANGED Aux

NextDetectors ==
    \/ \E image \in Images : EvalProtected(image)
    \/ \E image \in Images : EvalImageInUse(image)
    \/ \E key_pair \in Keypairs : EvalKeyPairInUse(key_pair)
    \/ \E item \in TrackedItems : \E age \in Thresholds :
          EvalAge(item, age) /\ UNCHANGED NoPass
    \/ \E item \in NamedItems : EvalExclude(item)

SpecDetectors == InitDetectors /\ [][NextDetectors]_vars

\* C12: the evaluation of a detector leaves the records of the tracker and the
\* marked set as they were.
C12_DetectorsReadOnly ==
    [][last'.op \in DetectorOps =>
          /\ rows' = rows
          /\ firstCreated' = firstCreated
          /\ marked' = marked]_vars

\* The age detector returned a verdict while the tracker and the marked set
\* hold entries.
C12_Witness ==
    /\ last.op = "older_than"
    /\ last.result.raised = ""
    /\ rows[Key(last.item)] # <<>>
    /\ marked # {}

----------------------------------------------------------------------------
(* A backend failure in the middle of a batch *)

\* The keys of the items that precede the position at which the backend failed.
ProcessedKeys == {Key(AsItems(last.arg)[i]) : i \in 1..(last.fail.pos - 1)}

\* C18: when a backend primitive fails on the k-th item of a register or
\* unregister call, the failure reaches the caller, the items before position k
\* are registered (or unregistered), every other record is as it was before the
\* call, and no primitive is called for the k-th item or any later one.
C18_BatchFailureNotAtomic ==
    (last.op \in {"register", "unregister"} /\ last.error # "") =>
        /\ last.error = last.fail.prim
        /\ \A i \in 1..Len(last.calls) : last.calls[i].key \in ProcessedKeys
        /\ \A k \in Keys \ ProcessedKeys : rows[k] = last.pre[k]
        /\ \A k \in ProcessedKeys :
              IF last.op = "unregister" THEN rows[k] = <<>>
              ELSE IF Tracked(last.pre, k) THEN rows[k] = last.pre[k]
              ELSE rows[k] = <<Created(ItemOf(k), last.at)>>

\* register of two distinct untracked items whose second _register failed: the
\* first item has a record, the second has none.
C18_Witness ==
    /\ last.op = "register" /\ last.error = "_register" /\ last.fail.pos = 2
    /\ ~Tracked(last.pre, Key(last.arg.coll[1]))
    /\ last.arg.coll[1] # last.arg.coll[2]
    /\ Tracked(rows, Key(last.arg.coll[1]))
    /\ ~Tracked(rows, Key(last.arg.coll[2]))

\* unregister of two distinct tracked items whose second _unregister failed.
C18_UnregisterHalfDone ==
    /\ last.op = "unregister" /\ last.error = "_unregister" /\ last.fail.pos = 2
    /\ Tracked(last.pre, Key(last.arg.coll[1]))
    /\ ~Tracked(rows, Key(last.arg.coll[1]))
    /\ Tracked(rows, Key(last.arg.coll[2]))

----------------------------------------------------------------------------
(* The life of a record: register, unregister, register again *)

\* The created timestamp of the record that _unregister is about to delete.
Forget(prev, self, item) ==
    IF Tracked(self, Key(item)) THEN [prev EXCEPT ![Key(item)] = Some(self[Key(item)][1])]
    ELSE prev

NoLifecycle == <<cloud, marked, config, pass, idx, decisions, threads, excludes>>

\* A registration after an unregister takes up the timestamp of the deleted record.
LifecycleRegisterResuming(item) ==
    LET k == Key(item)
        resumes == ~Tracked(rows, k) /\ previous[k] # None
        self == IF resumes THEN _register(rows, item, previous[k][1])
                ELSE register(rows, Single(item), now, NoFail).self
    IN  /\ rows' = self
        /\ firstCreated' = self
        /\ last' = [op |-> "register", arg |-> Single(item), fail |-> NoFail, pre |-> rows,
                    at |-> now, calls |-> <<>>, error |-> ""]
        /\ UNCHANGED <<now, previous>>

\* tracker.register(item)
LifecycleRegister(item) ==
    /\ Register(Single(item), NoFail)
    /\ UNCHANGED previous

\* tracker.unregister(item)
LifecycleUnregister(item) ==
    /\ Unregister(Single(item), NoFail)
    /\ previous' = Forget(previous, rows, item)

NextLifecycle ==
    \/ Tick /\ UNCHANGED previous /\ UNCHANGED NoLifecycle
    \/ \E item \in TrackedItems : LifecycleRegister(item) /\ UNCHANGED NoLifecycle
    \/ \E item \in TrackedItems : LifecycleUnregister(item) /\ UNCHANGED NoLifecycle

SpecLifecycle == Init /\ [][NextLifecycle]_vars

\* The last operation registered an item whose earlier record had been deleted.
Reregistered(item) ==
    /\ last.op = "register" /\ last.arg = Single(item)
    /\ ~Tracked(last.pre, Key(item))
    /\ previous[Key(item)] # None

\* C19: register after unregister starts a new record. A non-Timestamped item
\* gets the wall-clock time of the second register as created, so its age counts
\* from that moment and at that moment the age detector protects it whatever the
\* threshold; a Timestamped item gets its created_at again, so its age is what
\* the deleted record would give.
C19_ReregistrationRestarts ==
    \A item \in TrackedItems : Reregistered(item) =>
        IF item.timestamped
        THEN /\ rows[Key(item)] = <<item.created_at>>
             /\ get_age([rows EXCEPT ![Key(item)] = previous[Key(item)]], item, now)
                   = get_age(rows, item, now)
        ELSE /\ rows[Key(item)] = <<last.at>>
             /\ get_age(rows, item, now) = Some(now - last.at)
             /\ now = last.at =>
                   \A age \in Thresholds :
                       delete_if_older_than_detector(age, item, rows, now).prevent

\* A non-Timestamped item was registered again later than its first record was
\* created, and a Timestamped item went through the same sequence before.
C19_Witness ==
    /\ Reregistered(Image1)
    /\ previous[Key(Image1)][1] < last.at
    /\ get_age(rows, Image1, now) = Some(0)
    /\ previous[Key(Instance1)] # None /\ Tracked(rows, Key(Instance1))
    /\ now > Instance1.created_at

----------------------------------------------------------------------------
(* Two threads inside Tracker.register on one tracker *)

Threads == {"t1", "t2"}

\* A thread's position in register(item): not called yet, before line 52, before
\* line 53, before line 54, returned.
Idle == [pc |-> "idle", item |-> Image1, created |-> 0]

NoConc == <<cloud, marked, config, pass, idx, decisions, excludes, previous>>

InitConc ==
    /\ rows = [k \in Keys |-> <<>>]
    /\ now = 0
    /\ firstCreated = [k \in Keys |-> None]
    /\ last = [op |-> "concurrent", calls |-> <<>>]
    /\ cloud = [raises |-> FALSE, instances |-> <<>>]
    /\ marked = {}
    /\ config = <<>>
    /\ pass = <<>>
    /\ idx = 0
    /\ decisions = <<>>
    /\ excludes = [kind |-> "collection", patterns |-> <<>>, pos |-> 0]
    /\ previous = [k \in Keys |-> None]
    /\ threads = [t \in Threads |-> Idle]

\* Line 50: the thread calls register(item); items = [item].
ConcCall(t, item) ==
    /\ threads[t].pc = "idle"
    /\ threads' = [threads EXCEPT ![t] = [pc |-> "line52", item |-> item, created |-> 0]]
    /\ UNCHANGED <<rows, now, firstCreated, last>>

\* Line 52: if self.get_age(item) is None
ConcGetAge(t) ==
    /\ threads[t].pc = "line52"
    /\ threads' = [threads EXCEPT ![t].pc =
                      IF get_age(rows, threads[t].item, now) = None THEN "line53"
                      ELSE "returned"]
    /\ UNCHANGED <<rows, now, firstCreated, last>>

\* Line 53: created = item.created_at or datetime.now()
ConcCreated(t) ==
    /\ threads[t].pc = "line53"
    /\ threads' = [threads EXCEPT ![t].pc = "line54",
                                  ![t].created = Created(threads[t].item, now)]
    /\ UNCHANGED <<rows, now, firstCreated, last>>

\* Line 54: self._register(item, created)
ConcRegister(t) ==
    /\ threads[t].pc = "line54"
    /\ rows' = _register(rows, threads[t].item, threads[t].created)
    /\ last' = [last EXCEPT !.calls =
                    Append(@, Call("_register", threads[t].item, threads[t].created))]
    /\ firstCreated' = Replay(firstCreated,
                              <<Call("_register", threads[t].item, threads[t].created)>>)
    /\ threads' = [threads EXCEPT ![t].pc = "returned"]
    /\ UNCHANGED now

NextConc ==
    \/ Tick /\ UNCHANGED threads /\ UNCHANGED NoConc
    \/ \E t \in Threads : \E item \in TrackedItems : ConcCall(t, item) /\ UNCHANGED NoConc
    \/ \E t \in Threads : ConcGetAge(t) /\ UNCHANGED NoConc
    \/ \E t \in Threads : ConcCreated(t) /\ UNCHANGED NoConc
    \/ \E t \in Threads : ConcRegister(t) /\ UNCHANGED NoConc

SpecConc == InitConc /\ [][NextConc]_vars

\* C17: whatever the interleaving of two threads that register the same
\* untracked item, _register is invoked for the item exactly once and the
\* record keeps the created timestamp that the first _register stored.
C17_AtomicCheckThenAct ==
    \A k \in Keys :
        /\ Cardinality(CallsFor(k)) <= 1
        /\ (\A t \in Threads : threads[t].pc = "returned" /\ Key(threads[t].item) = k) =>
              Cardinality(CallsFor(k)) = 1
        /\ Tracked(rows, k) =>
              get_age(rows, ItemOf(k), now) = Some(now - firstCreated[k][1])

====
